---- MODULE Spec2Model ----
(***************************************************************************)
(* smartbuild front end: the demo-mode damage assessment of                *)
(* services/api.js (mockAnalyzeImage) and the Dashboard's statistics       *)
(* (computeStats, getDamageType) of components/Dashboard.                  *)
(*                                                                         *)
(* Specifications sharing the module:                                      *)
(*   SpecMock   mockAnalyzeImage as the program runs it: the detections    *)
(*              are drawn by the function itself (1..3 picks out of        *)
(*              mockDamages) and then assessed.                            *)
(*   SpecScore  the assessment block of mockAnalyzeImage (lines 103-139)   *)
(*              as a function of the detection mapping, applied to         *)
(*              mappings drawn from a bounded set (known and unknown       *)
(*              kinds, zero and negative counts).                          *)
(*   SpecStats  computeStats applied to histories drawn from a bounded     *)
(*              set of inspection records.                                 *)
(*   SpecHistory the success tail of handleDeleteInspection (filter,       *)
(*              setInspections, computeStats) applied again and again to   *)
(*              a drawn history, with the arrays kept as objects that have *)
(*              an identity.                                               *)
(***************************************************************************)
EXTENDS Integers, Sequences, FiniteSets, Bags, TLC

VARIABLES
    detected,   \* api.js:95  the detection mapping: kind -> count
    result,     \* api.js:134 what the promise of mockAnalyzeImage resolved with
    list,       \* Dashboard: the argument of computeStats
    stats,      \* Dashboard: the `stats` React state (useState(null))
    arrays,     \* the array objects of the history, by identity (index)
    cur,        \* the identity of the array the `inspections` state holds
    ops,        \* the removals made so far: [src, id, dst]
    server,     \* the inspections the backend stores for the user
    currentUser, \* auth.currentUser is set
    inspections, \* Dashboard: the `inspections` React state
    route,      \* the route the router shows
    handlers,   \* Dashboard: the async handlers in flight, a bag
    last,       \* the handler that finished last, and how
    applied,    \* identifiers whose deletion succeeded and was shown
    location,   \* Result: location.state of the /result route
    page,       \* Result: what the component renders
    download,   \* Result: how the last "Download PDF Report" click ended
    user,       \* App: the `user` React state is not null
    storage,    \* localStorage: the keys it holds
    effects,    \* components whose mount effect has not run yet
    loggedOut,  \* a logout has completed and no login since
    loading,    \* Dashboard: the `loading` React state
    upload,     \* Dashboard: the `image` and `preview` React states are set
    instance    \* the number of Dashboards mounted so far

gAssess == <<detected, result>>
gHistory == <<arrays, cur, ops>>
gResult == <<location, page, download>>
gApp == <<user, storage, effects, loggedOut>>
gAnalyze == <<loading, upload, instance>>
gOther ==
    <<detected, result, list, arrays, cur, ops, location, page, download,
      user, storage, effects, loggedOut, loading, upload, instance>>
gDashboard == <<server, currentUser, inspections, route, handlers, last, applied>>

vars ==
    <<detected, result, list, stats, arrays, cur, ops,
      server, currentUser, inspections, route, handlers, last, applied,
      location, page, download,
      user, storage, effects, loggedOut, loading, upload, instance>>

----------------------------------------------------------------------------
(* Bounds of the model                                                     *)

MaxKeys == 3     \* keys of a drawn detection mapping
MaxCount == 3    \* largest count of a drawn detection mapping
MaxNeg == 1      \* magnitude of the most negative drawn count
MaxHist == 3     \* length of a drawn history
MaxIds == 3      \* identifiers of stored inspections
MaxStored == 2   \* inspections the Dashboard's store holds at first
MaxOps == 2      \* removals applied in a row
MaxInFlight == 2 \* Dashboard handlers in flight at once
MaxMounts == 2   \* Dashboards whose handlers are told apart

----------------------------------------------------------------------------
(* JavaScript values that the assessment can produce.  A number is         *)
(* [type |-> "number", v |-> n]; NaN, undefined and a function value keep  *)
(* v = 0 so that records stay comparable.                                  *)

Num(n) == [type |-> "number", v |-> n]
NaN == [type |-> "NaN", v |-> 0]
Undefined == [type |-> "undefined", v |-> 0]
FunctionValue == [type |-> "function", v |-> 0]

\* ToBoolean: undefined, NaN and 0 are falsy; a function and a non-zero number are truthy
Truthy(x) == x.type = "function" \/ (x.type = "number" /\ x.v # 0)

\* x || d
OrElse(x, d) == IF Truthy(x) THEN x ELSE d

\* x * n for a number n: a function operand converts to NaN
Times(x, n) == IF x.type = "number" THEN Num(x.v * n) ELSE NaN

\* a - b
Minus(a, b) == IF a.type = "number" /\ b.type = "number" THEN Num(a.v - b.v) ELSE NaN

\* Math.max(a, n) for a number n: NaN if an operand is NaN
MathMax(a, n) ==
    IF a.type = "number" THEN Num(IF a.v >= n THEN a.v ELSE n) ELSE NaN

----------------------------------------------------------------------------
(* mockAnalyzeImage, services/api.js                                       *)

mockDamages ==
    {"minor_crack", "major_crack", "spalling", "peeling", "algae", "stain", "normal"}

\* the object literal `penalties`
penalties ==
    [major_crack |-> 15, minor_crack |-> 8, spalling |-> 20, peeling |-> 10,
     algae |-> 5, stain |-> 5, normal |-> 0]

\* Names every object literal inherits from Object.prototype (two of them)
ObjectPrototypeNames == {"toString", "constructor"}

\* penalties[d]: an own property, else an inherited one, else undefined
PenaltyLookup(d) ==
    IF d \in DOMAIN penalties THEN Num(penalties[d])
    ELSE IF d \in ObjectPrototypeNames THEN FunctionValue
    ELSE Undefined

\* (penalties[d] || 0) * detected[d]
Penalty(d, n) == Times(OrElse(PenaltyLookup(d), Num(0)), n)

RECURSIVE SumCounts(_, _)
SumCounts(m, keys) ==
    IF keys = {} THEN 0
    ELSE LET k == CHOOSE x \in keys : TRUE
         IN  m[k] + SumCounts(m, keys \ {k})

\* Object.values(detected).reduce((a, b) => a + b, 0)
Count(m) == SumCounts(m, DOMAIN m)

\* Object.keys(detected).forEach((d) => { score -= (penalties[d] || 0) * detected[d] })
RECURSIVE ScoreLoop(_, _, _)
ScoreLoop(score, m, keys) ==
    IF keys = {} THEN score
    ELSE LET d == CHOOSE x \in keys : TRUE
         IN  ScoreLoop(Minus(score, Penalty(d, m[d])), m, keys \ {d})

\* score = Math.max(score, 0)
ClampScore(score) == MathMax(score, 0)

\* let score = 100; if (count > 0) { ...; score = Math.max(score, 0) }
HealthScore(m) ==
    IF Count(m) > 0 THEN ClampScore(ScoreLoop(Num(100), m, DOMAIN m)) ELSE Num(100)

\* Mutant of SeverityOfCount: the threshold off by one (count < 2)
SeverityOfCountBelowTwo(count) == IF count < 2 THEN "Moderate" ELSE "Critical"

\* if (count <= 2) severity = "Moderate"; else severity = "Critical"
SeverityOfCount(count) == IF count <= 2 THEN "Moderate" ELSE "Critical"

\* Mutant of Severity: the guard admits a total of 0 (count >= 0)
SeverityGuardAdmitsZero(m) ==
    IF Count(m) >= 0
    THEN (IF Count(m) <= 2 THEN "Moderate" ELSE "Critical")
    ELSE "Good"

\* let severity = "Good"; if (count > 0) { ... }
Severity(m) == IF Count(m) > 0 THEN SeverityOfCount(Count(m)) ELSE "Good"

\* Mutant of precautions: the list is left empty
noPrecautions == <<>>

\* precautions: [...] of the resolved object
precautions ==
    <<"Regular inspection recommended", "Monitor damaged areas monthly",
      "Consider professional assessment">>

\* the value handed to resolve(): the promise has no reject path
Assessment(m) ==
    [status |-> "resolved", detected_damages |-> m, severity |-> Severity(m),
     health_score |-> HealthScore(m), precautions |-> precautions]

Pending == [status |-> "pending"]

EmptyMap == [k \in {} |-> 0]

\* detected[damage] = (detected[damage] || 0) + 1, over the picks in order
RECURSIVE Tally(_)
Tally(picks) ==
    IF picks = <<>> THEN EmptyMap
    ELSE LET rest == Tally(Tail(picks))
             d == Head(picks)
         IN  [k \in DOMAIN rest \cup {d} |->
                 IF k = d THEN (IF d \in DOMAIN rest THEN rest[d] ELSE 0) + 1
                 ELSE rest[k]]

\* One call of mockAnalyzeImage: Math.floor(Math.random() * 3) + 1 picks
MockAnalyzeImage ==
    \E numDamages \in 1..3 :
        \E picks \in [1..numDamages -> mockDamages] :
            /\ detected' = Tally(picks)
            /\ result' = Assessment(detected')
            /\ UNCHANGED <<list, stats, gHistory, gDashboard, gResult, gApp, gAnalyze>>

----------------------------------------------------------------------------
(* getDamageType, components/Dashboard: the label of a history entry       *)

getDamageType(damages) ==
    IF DOMAIN damages = {} THEN "No Damage"
    ELSE IF "major_crack" \in DOMAIN damages \/ "spalling" \in DOMAIN damages
         THEN "Critical Damage"
    ELSE IF "minor_crack" \in DOMAIN damages \/ "peeling" \in DOMAIN damages
         THEN "Surface Damage"
    ELSE "Minor Damage"

----------------------------------------------------------------------------
(* computeStats, components/Dashboard                                      *)

Severities == {"Good", "Moderate", "Critical"}

\* insp.health_score || 0, on a numeric score
ScoreOrZero(s) == IF s = 0 THEN 0 ELSE s

\* Mutant of SumScores: the reduction starts at the second record
RECURSIVE SumFrom(_, _)
SumFrom(l, i) == IF i > Len(l) THEN 0 ELSE l[i].health_score + SumFrom(l, i + 1)
SumScoresSkipsFirst(l) == SumFrom(l, 2)

\* list.reduce((sum, insp) => sum + (insp.health_score || 0), 0)
RECURSIVE SumScores(_)
SumScores(l) ==
    IF l = <<>> THEN 0
    ELSE ScoreOrZero(Head(l).health_score) + SumScores(Tail(l))

\* Mutant of SeverityLength: the Critical filter compares with "critical"
SeverityLengthMisspelt(l, s) ==
    Cardinality({i \in 1..Len(l) : l[i].severity = (IF s = "Critical" THEN "critical" ELSE s)})

\* list.filter((i) => i.severity === s).length
SeverityLength(l, s) == Cardinality({i \in 1..Len(l) : l[i].severity = s})

\* Mutant of MathRound: Math.floor in its place
MathFloor(sum, total) == sum \div total

\* Math.round(sum / total) for sum >= 0, total > 0: floor(sum / total + 1/2)
MathRound(sum, total) == (2 * sum + total) \div (2 * total)

\* the value computeStats passes to setStats; Null stands for setStats(null)
Null == [isNull |-> TRUE]

\* Mutant of computeStats: no guard for the empty list, 0 / 0 is NaN
computeStatsUnguarded(l) ==
    [isNull |-> FALSE,
     totalInspections |-> Len(l),
     averageScore |-> IF Len(l) = 0 THEN NaN ELSE MathRound(SumScores(l), Len(l)),
     severityCount |-> [s \in Severities |-> SeverityLength(l, s)]]

computeStats(l) ==
    IF Len(l) = 0 THEN Null
    ELSE [isNull |-> FALSE,
          totalInspections |-> Len(l),
          averageScore |-> MathRound(SumScores(l), Len(l)),
          severityCount |-> [s \in Severities |-> SeverityLength(l, s)]]

ComputeStats ==
    /\ stats' = computeStats(list)
    /\ UNCHANGED <<detected, result, list, gHistory, gDashboard, gResult, gApp, gAnalyze>>

----------------------------------------------------------------------------
(* handleDeleteInspection, components/Dashboard: the removal               *)

\* insp._id || insp.id  (an absent field reads as 0, which is falsy)
IdOf(insp) == IF insp._id # 0 THEN insp._id ELSE insp.id

\* Mutant of remove: the filter reads insp.id alone, not insp._id || insp.id
removeByIdField(l, id) == SelectSeq(l, LAMBDA insp : insp.id # id)

\* Mutant of remove: splice(findIndex(...), 1), which drops the last record
\* when no record has the id (findIndex gives -1)
removeBySplice(l, id) ==
    IF \E i \in 1..Len(l) : IdOf(l[i]) = id
    THEN SelectSeq(l, LAMBDA insp : IdOf(insp) # id)
    ELSE SubSeq(l, 1, Len(l) - 1)

\* inspections.filter((insp) => (insp._id || insp.id) !== id)
remove(l, id) == SelectSeq(l, LAMBDA insp : IdOf(insp) # id)

\* Mutant of filterArray: the array is changed in place and handed back
spliceArray(h, r, id) == [heap |-> [h EXCEPT ![r] = remove(h[r], id)], ref |-> r]

\* Array.prototype.filter on the array r of the heap h: a new array
filterArray(h, r, id) == [heap |-> Append(h, remove(h[r], id)), ref |-> Len(h) + 1]

\* const remaining = inspections.filter(...); setInspections(remaining);
\* computeStats(remaining)
RemoveInspection(id) ==
    /\ Len(ops) < MaxOps
    /\ LET f == filterArray(arrays, cur, id)
       IN  /\ arrays' = f.heap
           /\ cur' = f.ref
           /\ ops' = Append(ops, [src |-> cur, id |-> id, dst |-> f.ref])
           /\ stats' = computeStats(f.heap[f.ref])
    /\ UNCHANGED <<gAssess, list, gDashboard, gResult, gApp, gAnalyze>>

HistoryIdle ==
    /\ arrays = <<>>
    /\ cur = 0
    /\ ops = <<>>

\* no handler has finished yet
NoHandler == [op |-> "none", outcome |-> "none", got |-> "none"]

\* the Dashboard is not mounted
DashboardIdle ==
    /\ server = <<>>
    /\ currentUser = FALSE
    /\ inspections = <<>>
    /\ route = "/"
    /\ handlers = EmptyBag
    /\ last = NoHandler
    /\ applied = {}

----------------------------------------------------------------------------
(* The Result page, components/Result: the report of one analysis on the   *)
(* screen, and its export by utils/pdfGenerator.                           *)

\* what `image` of location.state can be: the data URL of the upload, a data
\* URL that holds no readable image, nothing (a history entry)
Images == {"dataUrl", "unreadable", "absent"}

NoState == [present |-> FALSE]
NoPage == [shown |-> FALSE]
NoExport == [threw |-> FALSE, saved |-> FALSE]
NoDownload == [alert |-> "none", export |-> NoExport]

\* String(damage).replaceAll('_', ' ').toUpperCase()
DisplayName(damage) ==
    CASE damage = "major_crack" -> "MAJOR CRACK"
      [] damage = "minor_crack" -> "MINOR CRACK"
      [] damage = "spalling" -> "SPALLING"
      [] damage = "peeling" -> "PEELING"
      [] damage = "algae" -> "ALGAE"
      [] damage = "stain" -> "STAIN"
      [] damage = "normal" -> "NORMAL"
      [] damage = "rust" -> "RUST"
      [] damage = "toString" -> "TOSTRING"

\* typeof score === "number" ? score : 0 (typeof NaN is "number")
SafeScore(score) ==
    IF score.type = "number" \/ score.type = "NaN" THEN score ELSE Num(0)

\* renderHealthScore: the colour of the ring for an integer score
ScoreColor(score) ==
    IF score.type # "number" THEN "#dc3545"
    ELSE IF score.v >= 80 THEN "#28a745"
    ELSE IF score.v >= 60 THEN "#ffc107"
    ELSE "#dc3545"

\* analysis.severity || 'Moderate'
SeverityLabel(severity) == IF severity = "" THEN "Moderate" ELSE severity

\* Object.entries(damages).map(...): one damage-item per key, keyed by it
DamageItems(damages) ==
    [damage \in DOMAIN damages |->
        [name |-> DisplayName(damage), count |-> damages[damage]]]

\* Mutant of PrecautionItems: only the first two actions are listed
PrecautionItemsTopTwo(list_) ==
    [index \in 1..(IF Len(list_) < 2 THEN Len(list_) ELSE 2) |->
        [number |-> index, text |-> list_[index]]]

\* precautions.map((precaution, index) => ...), numbered from 1
PrecautionItems(list_) ==
    [index \in 1..Len(list_) |-> [number |-> index, text |-> list_[index]]]

\* The render of Result for a location.state
Result(state) ==
    IF ~state.present THEN NoPage
    ELSE [shown |-> TRUE,
          severity |-> SeverityLabel(state.analysis.severity),
          score |-> SafeScore(state.analysis.health_score),
          scoreColor |-> ScoreColor(SafeScore(state.analysis.health_score)),
          noDamages |-> DOMAIN state.analysis.detected_damages = {},
          damages |-> DamageItems(state.analysis.detected_damages),
          noPrecautions |-> Len(state.analysis.precautions) = 0,
          precautions |-> PrecautionItems(state.analysis.precautions),
          imagePreview |-> state.image # "absent"]

\* ReportExporter.export (utils/pdfGenerator): the document holds the fields
\* of the assessment; an image that is absent or unreadable is left out and
\* reported by a warning, and the export completes
generateInspectionReport(analysis, imageDataUrl) ==
    [threw |-> FALSE,
     saved |-> TRUE,
     document |->
         [severity |-> analysis.severity,
          health_score |-> analysis.health_score,
          detected_damages |-> analysis.detected_damages,
          precautions |-> analysis.precautions,
          image |-> IF imageDataUrl = "dataUrl" THEN "embedded" ELSE "none"],
     warnings |-> IF imageDataUrl = "dataUrl" THEN <<>> ELSE <<"DegradedExport">>]

\* Mutant of handleDownloadPDF: the handler gives up when it has no image
handleDownloadPDFNeedsImage(state) ==
    IF state.image = "absent"
    THEN [alert |-> "Failed to generate PDF report", export |-> NoExport]
    ELSE LET out == generateInspectionReport(state.analysis, state.image)
         IN  IF out.threw
             THEN [alert |-> "Failed to generate PDF report", export |-> out]
             ELSE [alert |-> "PDF report downloaded", export |-> out]

\* try { generateInspectionReport(...); alert(downloaded) } catch { alert(failed) }
handleDownloadPDF(state) ==
    LET out == generateInspectionReport(state.analysis, state.image)
    IN  IF out.threw
        THEN [alert |-> "Failed to generate PDF report", export |-> out]
        ELSE [alert |-> "PDF report downloaded", export |-> out]

\* navigate("/result", {state: {analysis, image, ...}}) and the render of
\* Result: from handleAnalyze with the preview, from a history entry without
OpenResult(image) ==
    /\ result # Pending
    /\ ~location.present
    /\ location' = [present |-> TRUE, analysis |-> result, image |-> image]
    /\ page' = Result(location')
    /\ UNCHANGED <<detected, result, list, stats, download, gHistory, gDashboard, gApp, gAnalyze>>

\* the click on "Download PDF Report"
DownloadPDF ==
    /\ location.present
    /\ download = NoDownload
    /\ download' = handleDownloadPDF(location)
    /\ UNCHANGED <<detected, result, list, stats, location, page, gHistory, gDashboard, gApp, gAnalyze>>

\* no App is running
NoUpload == [image |-> FALSE, preview |-> FALSE]

AppIdle ==
    /\ user = FALSE
    /\ storage = {}
    /\ effects = {}
    /\ loggedOut = FALSE
    /\ loading = FALSE
    /\ upload = NoUpload
    /\ instance = 0

\* no Result page is open
ResultIdle ==
    /\ location = NoState
    /\ page = NoPage
    /\ download = NoDownload

----------------------------------------------------------------------------
(* Inputs and specifications                                               *)

\* Kinds a drawn mapping may hold: the catalog's, one with no property of
\* that name anywhere ("rust"), one that names an inherited property
UnknownKinds == {"rust", "toString"}
Kinds == mockDamages \cup UnknownKinds

Counts == (0 - MaxNeg)..MaxCount

KeySets == {S \in SUBSET Kinds : Cardinality(S) <= MaxKeys}

DrawnMaps == UNION {[S -> Counts] : S \in KeySets}

\* health scores of drawn inspection records (integers of 0..100)
ScoreValues == {0, 50, 70, 85, 90}

Inspections == [health_score : ScoreValues, severity : Severities]

Histories == UNION {[1..n -> Inspections] : n \in 0..MaxHist}

\* The assessment block of mockAnalyzeImage applied to the drawn mapping
Assess ==
    /\ result = Pending
    /\ result' = Assessment(detected)
    /\ UNCHANGED <<detected, list, stats, gHistory, gDashboard, gResult, gApp, gAnalyze>>

InitMock ==
    /\ detected = EmptyMap
    /\ result = Pending
    /\ list = <<>>
    /\ stats = Null
    /\ HistoryIdle
    /\ DashboardIdle
    /\ ResultIdle
    /\ AppIdle

InitScore ==
    /\ detected \in DrawnMaps
    /\ result = Pending
    /\ list = <<>>
    /\ stats = Null
    /\ HistoryIdle
    /\ DashboardIdle
    /\ ResultIdle
    /\ AppIdle

InitStats ==
    /\ detected = EmptyMap
    /\ result = Pending
    /\ list \in Histories
    /\ stats = Null
    /\ HistoryIdle
    /\ DashboardIdle
    /\ ResultIdle
    /\ AppIdle

\* stored inspections: the identifier in `_id` or in `id`, the other absent
Shapes == {"_id", "id"}

SeverityOfId(i) ==
    IF i % 3 = 1 THEN "Good" ELSE IF i % 3 = 2 THEN "Moderate" ELSE "Critical"

InspectionOf(i, shape) ==
    [_id |-> IF shape = "_id" THEN i ELSE 0,
     id |-> IF shape = "id" THEN i ELSE 0,
     health_score |-> 100 - 15 * i,
     severity |-> SeverityOfId(i)]

StoredInspections == {InspectionOf(i, sh) : i \in 1..MaxIds, sh \in Shapes}

\* histories as the store returns them: no identifier twice
StoredHistories ==
    {h \in UNION {[1..n -> StoredInspections] : n \in 0..MaxIds} :
        \A i, j \in 1..Len(h) : i # j => IdOf(h[i]) # IdOf(h[j])}

\* identifiers a removal may be asked for: the stored ones and one more
RemovableIds == 1..(MaxIds + 1)

InitHistory ==
    /\ detected = EmptyMap
    /\ result = Pending
    /\ list = <<>>
    /\ arrays \in {<<h>> : h \in StoredHistories}
    /\ cur = 1
    /\ ops = <<>>
    /\ stats = computeStats(arrays[1])
    /\ DashboardIdle
    /\ ResultIdle
    /\ AppIdle

NextHistory == \E id \in RemovableIds : RemoveInspection(id)

SpecHistory == InitHistory /\ [][NextHistory]_vars

----------------------------------------------------------------------------
(* The Dashboard: fetchInspections and handleDeleteInspection as async     *)
(* handlers.  A handler is started (its request goes out), the backend     *)
(* answers it, and the handler resumes with the answer.  Any number of     *)
(* steps of other handlers can fall between the three.                     *)

\* what the store holds at first: some of the inspections 1..MaxStored, in order
ServerHistories ==
    {h \in StoredHistories :
        /\ \A i \in 1..Len(h) : h[i]._id \in 1..MaxStored
        /\ \A i, j \in 1..Len(h) : i < j => h[i]._id < h[j]._id}

NoBody == [present |-> FALSE, items |-> <<>>]
Body(l) == [present |-> TRUE, items |-> l]

\* what an OK answer to GET /api/inspections held
Got(body) ==
    IF ~body.present THEN "missing"
    ELSE IF Len(body.items) = 0 THEN "empty" ELSE "items"

\* data.inspections || []
InspectionsOrEmpty(body) == IF body.present THEN body.items ELSE <<>>

\* answers of the backend that make a handler give up: a 401, another
\* non-OK status, and a failure that makes an await throw (network error, a
\* body that is no JSON)
Failures == {"unauthorized", "error", "throw"}

DropHandler(h) == handlers (-) SetToBag({h})

AddHandler(h) == handlers (+) SetToBag({h})

InFlight == BagToSet(handlers)

Mounted == route = "/dashboard"

\* Mutant of ShowList: the list is set and the statistics are left as they were
ShowListOnly(l) == [inspections |-> l, stats |-> stats]

\* setInspections(l); computeStats(l)
ShowList(l) == [inspections |-> l, stats |-> computeStats(l)]

\* A state update of a handler reaches the screen only while the Dashboard
\* is mounted
Show(l) ==
    IF Mounted
    THEN /\ inspections' = ShowList(l).inspections
         /\ stats' = ShowList(l).stats
    ELSE UNCHANGED <<inspections, stats>>

\* getAuthHeader finds no auth.currentUser: navigate("/login") and return
HandlerWithoutUser(op) ==
    /\ Mounted
    /\ ~currentUser
    /\ route' = "/login"
    /\ last' = [op |-> op, outcome |-> "login", got |-> "none"]
    /\ UNCHANGED <<server, currentUser, inspections, stats, handlers, applied, gOther>>

\* fetchInspections up to its fetch(): on mount, and from handleAnalyze
StartFetch ==
    /\ Mounted
    /\ currentUser
    /\ BagCardinality(handlers) < MaxInFlight
    /\ handlers' = AddHandler(
           [op |-> "fetch", pc |-> "sent", id |-> 0, snap |-> <<>>, body |-> NoBody])
    /\ UNCHANGED <<server, currentUser, inspections, stats, route, last, applied, gOther>>

\* handleDeleteInspection(id) up to its fetch(): the click on an entry of the
\* list; the closure holds the `inspections` of the render it was made in
StartDelete(id) ==
    /\ Mounted
    /\ currentUser
    /\ BagCardinality(handlers) < MaxInFlight
    /\ \E i \in 1..Len(inspections) : i <= 5 /\ IdOf(inspections[i]) = id
    /\ handlers' = AddHandler(
           [op |-> "delete", pc |-> "sent", id |-> id, snap |-> inspections,
            body |-> NoBody])
    /\ UNCHANGED <<server, currentUser, inspections, stats, route, last, applied, gOther>>

\* the backend answers GET /api/inspections with an OK response that holds
\* what it stores then; an empty store may answer without `inspections`
ServeFetch(h) ==
    /\ h.op = "fetch"
    /\ h.pc = "sent"
    /\ \E body \in {Body(server)} \cup (IF server = <<>> THEN {NoBody} ELSE {}) :
           handlers' = DropHandler(h) (+) SetToBag({[h EXCEPT !.pc = "replied", !.body = body]})
    /\ UNCHANGED <<server, currentUser, inspections, stats, route, last, applied, gOther>>

\* the backend answers DELETE /api/inspections/<id> with an OK response: the
\* record is gone from the store
ServeDelete(h) ==
    /\ h.op = "delete"
    /\ h.pc = "sent"
    /\ handlers' = DropHandler(h) (+) SetToBag({[h EXCEPT !.pc = "replied"]})
    /\ server' = remove(server, h.id)
    /\ UNCHANGED <<currentUser, inspections, stats, route, last, applied, gOther>>

\* fetchInspections after an OK response: lines 435-438
FinishFetch(h) ==
    /\ h.op = "fetch"
    /\ h.pc = "replied"
    /\ handlers' = DropHandler(h)
    /\ Show(InspectionsOrEmpty(h.body))
    /\ last' = [op |-> "fetch", outcome |-> "ok", got |-> Got(h.body)]
    /\ UNCHANGED <<server, currentUser, route, applied, gOther>>

\* handleDeleteInspection after an OK response: lines 540-544
FinishDelete(h) ==
    /\ h.op = "delete"
    /\ h.pc = "replied"
    /\ handlers' = DropHandler(h)
    /\ Show(remove(h.snap, h.id))
    /\ last' = [op |-> "delete", outcome |-> "ok", got |-> "none"]
    /\ applied' = IF Mounted THEN applied \cup {h.id} ELSE applied
    /\ UNCHANGED <<server, currentUser, route, gOther>>

\* A handler whose request failed: a 401 navigates to /login, any other
\* non-OK status returns, a thrown await lands in the catch; the state of
\* the Dashboard is left as it is.  A DELETE whose answer is lost may still
\* have removed the record from the store.
FailHandler(h, failure) ==
    /\ h.pc = "sent"
    /\ handlers' = DropHandler(h)
    /\ route' = IF failure = "unauthorized" /\ Mounted THEN "/login" ELSE route
    /\ last' = [op |-> h.op,
                outcome |-> IF failure = "unauthorized" THEN "login" ELSE "failed",
                got |-> "none"]
    /\ \/ server' = server
       \/ /\ h.op = "delete"
          /\ failure = "throw"
          /\ server' = remove(server, h.id)
          /\ server' # server
    /\ UNCHANGED <<currentUser, inspections, stats, applied, gOther>>

\* the Dashboard has just been mounted: useState([]), useState(null)
Init ==
    /\ detected = EmptyMap
    /\ result = Pending
    /\ list = <<>>
    /\ HistoryIdle
    /\ server \in ServerHistories
    /\ currentUser \in BOOLEAN
    /\ inspections = <<>>
    /\ stats = Null
    /\ route = "/dashboard"
    /\ handlers = EmptyBag
    /\ last = NoHandler
    /\ applied = {}
    /\ ResultIdle
    /\ AppIdle

Next ==
    \/ HandlerWithoutUser("fetch")
    \/ StartFetch
    \/ \E id \in 1..MaxStored : StartDelete(id)
    \/ \E h \in InFlight : ServeFetch(h)
    \/ \E h \in InFlight : ServeDelete(h)
    \/ \E h \in InFlight : FinishFetch(h)
    \/ \E h \in InFlight : FinishDelete(h)
    \/ \E h \in InFlight, failure \in Failures : FailHandler(h, failure)

Spec == Init /\ [][Next]_vars

\* an assessment of a drawn mapping is opened on the Result page and exported
InitResult == InitScore

NextResult ==
    \/ Assess
    \/ \E image \in Images : OpenResult(image)
    \/ DownloadPDF

SpecResult == InitResult /\ [][NextResult]_vars

NextMock == MockAnalyzeImage
NextScore == Assess
NextStats == ComputeStats

SpecMock == InitMock /\ [][NextMock]_vars
SpecScore == InitScore /\ [][NextScore]_vars
SpecStats == InitStats /\ [][NextStats]_vars

----------------------------------------------------------------------------
(* The App (routes and the stored session), the Navbar (logout, profile)   *)
(* and the Dashboards it mounts.  A mount effect runs before the browser   *)
(* handles the next event; an await of a handler can be overtaken by any   *)
(* other step.                                                             *)

Routes == {"/", "/login", "/signup", "/dashboard", "/result"}

StorageKeys == {"token", "buildingInspectionUser"}

Navigate(to) == [kind |-> "Navigate", to |-> to]
Component(name) == [kind |-> name, to |-> ""]

\* Mutant of Element: the /result route is not guarded
ElementResultUnguarded(path, u) ==
    CASE path = "/" -> IF u THEN Navigate("/dashboard") ELSE Component("Landing")
      [] path = "/login" -> IF u THEN Navigate("/dashboard") ELSE Component("Login")
      [] path = "/signup" -> IF u THEN Navigate("/dashboard") ELSE Component("Signup")
      [] path = "/dashboard" -> IF u THEN Component("Dashboard") ELSE Navigate("/login")
      [] path = "/result" -> Component("Result")

\* <Routes>: the element of a path for the App's user
Element(path, u) ==
    CASE path = "/" -> IF u THEN Navigate("/dashboard") ELSE Component("Landing")
      [] path = "/login" -> IF u THEN Navigate("/dashboard") ELSE Component("Login")
      [] path = "/signup" -> IF u THEN Navigate("/dashboard") ELSE Component("Signup")
      [] path = "/dashboard" -> IF u THEN Component("Dashboard") ELSE Navigate("/login")
      [] path = "/result" -> IF u THEN Component("Result") ELSE Navigate("/login")

Rendered == Element(route, user)

\* the browser handles an event of the person only when no effect is due
Settled == effects = {} /\ Rendered.kind # "Navigate"

\* the Navbar is there (not on "/") and shows the user menu
UserMenu == route # "/" /\ user

\* components whose mount effect is due when element a gives way to b
Mounts(a, b) ==
    IF b.kind # a.kind /\ b.kind \in {"Dashboard", "Result"} THEN {b.kind} ELSE {}

Task(op, pc, inst) ==
    [op |-> op, pc |-> pc, id |-> inst, snap |-> <<>>, body |-> NoBody]

\* an instance number that no handler in flight belongs to
FreeInstances == {i \in 1..MaxMounts : \A h \in InFlight : h.id # i}
NewInstance == CHOOSE i \in FreeInstances : \A j \in FreeInstances : i <= j

\* The router shows path r while the App's user is u; the effects in `ran`
\* have run.  A Dashboard that is mounted starts from its useState values,
\* one that is unmounted has no state.
Screen(r, u, ran) ==
    LET a == Element(route, user)
        b == Element(r, u)
        changes == a.kind # b.kind /\ "Dashboard" \in {a.kind, b.kind}
    IN  /\ "Dashboard" \in Mounts(a, b) => FreeInstances # {}
        /\ route' = r
        /\ user' = u
        /\ effects' = (effects \ ran) \cup Mounts(a, b)
        /\ instance' = IF "Dashboard" \in Mounts(a, b) THEN NewInstance ELSE instance
        /\ loading' = IF changes THEN FALSE ELSE loading
        /\ upload' = IF changes THEN NoUpload ELSE upload
        /\ inspections' = IF changes THEN <<>> ELSE inspections
        /\ stats' = IF changes THEN Null ELSE stats

gScreen == <<route, user, effects, instance, loading, upload, inspections, stats>>
gIdle == <<detected, result, list, arrays, cur, ops, page, download, server, applied>>

\* App's useEffect: the stored user, if any, becomes the user
RestoreUser ==
    /\ "App" \in effects
    /\ Screen(route, user \/ "buildingInspectionUser" \in storage, {"App"})
    /\ UNCHANGED <<storage, loggedOut, currentUser, handlers, last, location, gIdle>>

\* <Navigate to=... />
Redirect ==
    /\ Rendered.kind = "Navigate"
    /\ Screen(Rendered.to, user, {})
    /\ UNCHANGED <<storage, loggedOut, currentUser, handlers, last, location, gIdle>>

\* Dashboard's useEffect: fetchInspections up to its first await that waits.
\* Without auth.currentUser getAuthHeader gives null and the handler
\* navigates to /login.
DashboardEffect ==
    /\ "Dashboard" \in effects
    /\ Rendered.kind = "Dashboard"
    /\ IF currentUser
       THEN /\ BagCardinality(handlers) < MaxInFlight
            /\ handlers' = AddHandler(Task("fetch", "token", instance))
            /\ effects' = effects \ {"Dashboard"}
            /\ UNCHANGED <<route, user, instance, loading, upload, inspections, stats>>
       ELSE /\ Screen("/login", user, {"Dashboard"})
            /\ UNCHANGED handlers
    /\ UNCHANGED <<storage, loggedOut, currentUser, last, location, gIdle>>

\* Result's useEffect: if (!analysis) navigate('/dashboard')
ResultEffect ==
    /\ "Result" \in effects
    /\ Rendered.kind = "Result"
    /\ IF location.present
       THEN /\ effects' = effects \ {"Result"}
            /\ UNCHANGED <<route, user, instance, loading, upload, inspections, stats>>
       ELSE Screen("/dashboard", user, {"Result"})
    /\ UNCHANGED <<storage, loggedOut, currentUser, handlers, last, location, gIdle>>

\* the person goes to another path of the application (a link, the back
\* button); the entry holds no navigation state
Visit(r) ==
    /\ Settled
    /\ r # route
    /\ Screen(r, user, {})
    /\ location' = NoState
    /\ UNCHANGED <<storage, loggedOut, currentUser, handlers, last, gIdle>>

\* the analysis handed to /result for an entry of the history; the records
\* of the store hold no detections and no precautions
AnalysisOf(inspection) ==
    [status |-> "resolved",
     detected_damages |-> EmptyMap,
     severity |-> inspection.severity,
     health_score |-> Num(inspection.health_score),
     precautions |-> <<>>]

\* the click on an entry of the history list: navigate("/result", {state:
\* {analysis: {...}, inspectionId: id}}), without image
OpenHistoryEntry(i) ==
    /\ Settled
    /\ Rendered.kind = "Dashboard"
    /\ i <= Len(inspections)
    /\ location' = [present |-> TRUE, analysis |-> AnalysisOf(inspections[i]),
                    image |-> "absent"]
    /\ Screen("/result", user, {})
    /\ UNCHANGED <<storage, loggedOut, currentUser, handlers, last, gIdle>>

\* handleLogin / handleSignup, called by the Login and Signup pages after
\* the sign-in with Firebase
HandleLogin ==
    /\ Settled
    /\ Rendered.kind \in {"Login", "Signup"}
    /\ Screen(route, TRUE, {})
    /\ storage' = storage \cup {"buildingInspectionUser"}
    /\ currentUser' = TRUE
    /\ loggedOut' = FALSE
    /\ UNCHANGED <<handlers, last, location, gIdle>>

\* handleLogout up to `await signOut(auth)`: the click on Logout
StartLogout ==
    /\ Settled
    /\ UserMenu
    /\ BagCardinality(handlers) < MaxInFlight
    /\ handlers' = AddHandler(Task("logout", "signOut", 0))
    /\ UNCHANGED <<storage, loggedOut, currentUser, last, location, gScreen, gIdle>>

\* handleLogout after signOut: whether it succeeded or threw, both keys are
\* removed, onLogout sets the user to null, navigate('/')
FinishLogout(h, signedOut) ==
    /\ h.op = "logout"
    /\ handlers' = DropHandler(h)
    /\ currentUser' = IF signedOut THEN FALSE ELSE currentUser
    /\ storage' = storage \ {"token", "buildingInspectionUser"}
    /\ Screen("/", FALSE, {})
    /\ loggedOut' = TRUE
    /\ last' = [op |-> "logout", outcome |-> "ok", got |-> "none"]
    /\ UNCHANGED <<location, gIdle>>

\* ProfileSettingsModal.handleSave up to its awaits (updateProfile,
\* getIdToken, fetch): it needs auth.currentUser
StartSave ==
    /\ Settled
    /\ UserMenu
    /\ currentUser
    /\ BagCardinality(handlers) < MaxInFlight
    /\ handlers' = AddHandler(Task("save", "sent", 0))
    /\ UNCHANGED <<storage, loggedOut, currentUser, last, location, gScreen, gIdle>>

\* handleSave after its awaits: on an OK answer the updated user is stored
\* (App passes no onUserUpdate, its user stays as it is); otherwise a
\* message is set
FinishSave(h, ok) ==
    /\ h.op = "save"
    /\ handlers' = DropHandler(h)
    /\ storage' = IF ok THEN storage \cup {"buildingInspectionUser"} ELSE storage
    /\ last' = [op |-> "save", outcome |-> IF ok THEN "ok" ELSE "failed", got |-> "none"]
    /\ UNCHANGED <<loggedOut, currentUser, location, gScreen, gIdle>>

\* getAuthHeader after `await user.getIdToken()`: the token is stored and
\* the handler sends its request; a rejected getIdToken ends fetchInspections
\* in its catch
FetchGotToken(h, ok) ==
    /\ h.op = "fetch"
    /\ h.pc = "token"
    /\ IF ok
       THEN /\ storage' = storage \cup {"token"}
            /\ handlers' = DropHandler(h) (+) SetToBag({[h EXCEPT !.pc = "sent"]})
            /\ last' = last
       ELSE /\ storage' = storage
            /\ handlers' = DropHandler(h)
            /\ last' = [op |-> "fetch", outcome |-> "failed", got |-> "none"]
    /\ UNCHANGED <<loggedOut, currentUser, location, gScreen, gIdle>>

\* fetchInspections after its request: an OK answer is shown by the
\* Dashboard that sent it, if it is still mounted; a 401 navigates to /login
FetchAnswered(h, reply) ==
    /\ h.op = "fetch"
    /\ h.pc = "sent"
    /\ handlers' = DropHandler(h)
    /\ CASE reply = "ok" ->
              /\ IF Rendered.kind = "Dashboard" /\ h.id = instance
                 THEN /\ inspections' = ShowList(InspectionsOrEmpty(Body(server))).inspections
                      /\ stats' = ShowList(InspectionsOrEmpty(Body(server))).stats
                 ELSE UNCHANGED <<inspections, stats>>
              /\ UNCHANGED <<route, user, effects, instance, loading, upload>>
         [] reply = "unauthorized" -> Screen("/login", user, {})
         [] OTHER -> UNCHANGED gScreen
    /\ last' = [op |-> "fetch",
                outcome |-> CASE reply = "ok" -> "ok"
                              [] reply = "unauthorized" -> "login"
                              [] OTHER -> "failed",
                got |-> IF reply = "ok" THEN Got(Body(server)) ELSE "none"]
    /\ UNCHANGED <<storage, loggedOut, currentUser, location, gIdle>>

\* the browser has loaded the application at some path: useState(null),
\* the stored session and the Firebase user are what an earlier visit left
InitApp ==
    /\ detected = EmptyMap
    /\ result = Pending
    /\ list = <<>>
    /\ stats = Null
    /\ HistoryIdle
    /\ ResultIdle
    /\ server \in {<<>>, <<InspectionOf(1, "_id")>>}
    /\ inspections = <<>>
    /\ handlers = EmptyBag
    /\ last = NoHandler
    /\ applied = {}
    /\ route \in Routes
    /\ currentUser \in BOOLEAN
    /\ user = FALSE
    /\ storage \in SUBSET StorageKeys
    /\ effects = {"App"}
    /\ loggedOut = FALSE
    /\ loading = FALSE
    /\ upload = NoUpload
    /\ instance = 0

NextApp ==
    \/ RestoreUser
    \/ Redirect
    \/ DashboardEffect
    \/ ResultEffect
    \/ \E r \in Routes : Visit(r)
    \/ \E i \in 1..5 : OpenHistoryEntry(i)
    \/ HandleLogin
    \/ StartLogout
    \/ \E h \in InFlight, signedOut \in BOOLEAN : FinishLogout(h, signedOut)
    \/ StartSave
    \/ \E h \in InFlight, ok \in BOOLEAN : FinishSave(h, ok)
    \/ \E h \in InFlight, ok \in BOOLEAN : FetchGotToken(h, ok)
    \/ \E h \in InFlight, reply \in {"ok"} \cup Failures : FetchAnswered(h, reply)

SpecApp == InitApp /\ [][NextApp]_vars

\* The application left to itself: the effects, the redirects and the
\* answers to the requests in flight, each of which happens if it stays due
NextAlone ==
    \/ RestoreUser
    \/ Redirect
    \/ DashboardEffect
    \/ ResultEffect
    \/ \E h \in InFlight, ok \in BOOLEAN : FetchGotToken(h, ok)
    \/ \E h \in InFlight, reply \in {"ok"} \cup Failures : FetchAnswered(h, reply)

SpecAppFair == SpecApp /\ WF_vars(NextAlone)

----------------------------------------------------------------------------
(* handleAnalyze, components/Dashboard: the upload is sent to the backend, *)
(* the history is fetched again, and the Result page is opened.            *)

\* answers to POST /api/analyze: a status with a body that is JSON or not,
\* or no answer at all (fetch throws)
AnalyzeReplies ==
    {"ok", "ok-nonjson", "unauthorized", "unauthorized-nonjson",
     "error", "error-nonjson", "throw"}

IsJson(reply) == reply \in {"ok", "unauthorized", "error"}

StatusOf(reply) ==
    CASE reply \in {"ok", "ok-nonjson"} -> "ok"
      [] reply \in {"unauthorized", "unauthorized-nonjson"} -> "unauthorized"
      [] reply \in {"error", "error-nonjson"} -> "error"
      [] OTHER -> "throw"

\* Mutant of AfterAnalyze: response.ok is not looked at
AfterAnalyzeIgnoresStatus(reply) ==
    IF StatusOf(reply) = "throw" THEN "failed"
    ELSE IF ~IsJson(reply) THEN "failed"
    ELSE "refresh"

\* What handleAnalyze does with the answer: a thrown fetch and a body that
\* is no JSON end in the catch; then a non-OK status throws, a 401 after
\* navigate("/login"); an OK answer goes on to fetchInspections
AfterAnalyze(reply) ==
    IF StatusOf(reply) = "throw" THEN "failed"
    ELSE IF ~IsJson(reply) THEN "failed"
    ELSE IF StatusOf(reply) = "unauthorized" THEN "/login"
    ELSE IF StatusOf(reply) # "ok" THEN "failed"
    ELSE "refresh"

\* the body of an OK answer: the analysis of the upload
AnalyzeData == Assessment(Tally(<<"minor_crack">>))

\* Mutant of Finally: the cleanup is missing
FinallySkipped(h) ==
    UNCHANGED <<loading, upload>>

\* finally { setLoading(false); setImage(null); setPreview(null) }, which
\* reaches the Dashboard that ran the handler while it is mounted
Finally(h) ==
    IF Rendered.kind = "Dashboard" /\ h.id = instance
    THEN loading' = FALSE /\ upload' = NoUpload
    ELSE UNCHANGED <<loading, upload>>

\* The end of a handleAnalyze run: it navigates to `to` ("/result" with the
\* analysis and the preview, or "/login"), or it stays ("failed", with an
\* alert); then the finally block
EndAnalyze(h, got, to) ==
    /\ handlers' = DropHandler(h)
    /\ last' = [op |-> "analyze", outcome |-> to, got |-> got]
    /\ IF to = "failed"
       THEN /\ Finally(h)
            /\ UNCHANGED <<route, user, effects, instance, inspections, stats, location>>
       ELSE /\ Screen(to, user, {})
            /\ location' = IF to = "/result"
                           THEN [present |-> TRUE, analysis |-> AnalyzeData,
                                 image |-> "dataUrl"]
                           ELSE location

\* handleImageUpload: UploadZone hands over the file and its data URL
SelectImage ==
    /\ Settled
    /\ Rendered.kind = "Dashboard"
    /\ ~upload.image
    /\ upload' = [image |-> TRUE, preview |-> TRUE]
    /\ UNCHANGED <<route, user, effects, instance, loading, inspections, stats,
                   storage, loggedOut, currentUser, handlers, last, location, gIdle>>

\* The click on the Analyze button, enabled while an image is selected and
\* loading is false: setLoading(true) and getAuthHeader.  Without
\* auth.currentUser the handler navigates to /login and its finally runs.
StartAnalyze ==
    /\ Settled
    /\ Rendered.kind = "Dashboard"
    /\ upload.image
    /\ ~loading
    /\ IF currentUser
       THEN /\ BagCardinality(handlers) < MaxInFlight
            /\ handlers' = AddHandler(Task("analyze", "token", instance))
            /\ loading' = TRUE
            /\ UNCHANGED <<route, user, effects, instance, upload, inspections, stats, last>>
       ELSE /\ Screen("/login", user, {})
            /\ last' = [op |-> "analyze", outcome |-> "/login", got |-> "no-user"]
            /\ UNCHANGED handlers
    /\ UNCHANGED <<storage, loggedOut, currentUser, location, gIdle>>

\* getAuthHeader of handleAnalyze after `await user.getIdToken()`
AnalyzeGotToken(h, ok) ==
    /\ h.op = "analyze"
    /\ h.pc = "token"
    /\ IF ok
       THEN /\ storage' = storage \cup {"token"}
            /\ handlers' = DropHandler(h) (+) SetToBag({[h EXCEPT !.pc = "sent"]})
            /\ UNCHANGED <<last, location, gScreen>>
       ELSE /\ storage' = storage
            /\ EndAnalyze(h, "token-failed", "failed")
    /\ UNCHANGED <<loggedOut, currentUser, gIdle>>

\* handleAnalyze after the answer to POST /api/analyze; the answer stays
\* with the handler (`data`)
AnalyzeAnswered(h, reply) ==
    /\ h.op = "analyze"
    /\ h.pc = "sent"
    /\ IF AfterAnalyze(reply) = "refresh"
       THEN /\ handlers' = DropHandler(h)
                            (+) SetToBag({[h EXCEPT !.pc = "refresh", !.snap = <<reply>>]})
            /\ UNCHANGED <<last, location, gScreen>>
       ELSE EndAnalyze(h, reply, AfterAnalyze(reply))
    /\ UNCHANGED <<storage, loggedOut, currentUser, gIdle>>

\* `await fetchInspections()` of handleAnalyze up to its request: without
\* auth.currentUser, or when getIdToken rejects, fetchInspections returns
\* (after navigate("/login") in the first case) and handleAnalyze goes on
\* to navigate("/result")
RefreshGotToken(h, ok) ==
    /\ h.op = "analyze"
    /\ h.pc = "refresh"
    /\ IF currentUser /\ ok
       THEN /\ storage' = storage \cup {"token"}
            /\ handlers' = DropHandler(h) (+) SetToBag({[h EXCEPT !.pc = "refreshing"]})
            /\ UNCHANGED <<last, location, gScreen>>
       ELSE /\ storage' = storage
            /\ EndAnalyze(h, h.snap[1], "/result")
    /\ UNCHANGED <<loggedOut, currentUser, gIdle>>

\* fetchInspections of handleAnalyze after its request, whatever the answer
\* (a list that is shown, a 401 with navigate("/login"), a failure), and
\* then navigate("/result", ...): the Dashboard is left
RefreshAnswered(h, reply) ==
    /\ h.op = "analyze"
    /\ h.pc = "refreshing"
    /\ reply \in {"ok"} \cup Failures
    /\ EndAnalyze(h, h.snap[1], "/result")
    /\ UNCHANGED <<storage, loggedOut, currentUser, gIdle>>

\* the Firebase session ends outside the application (another tab, a
\* revoked account): auth.currentUser becomes null
SessionEnds ==
    /\ currentUser
    /\ currentUser' = FALSE
    /\ UNCHANGED <<storage, loggedOut, handlers, last, location, gScreen, gIdle>>

\* the application has been loaded at /dashboard with a stored user
InitAnalyze ==
    /\ InitApp
    /\ route = "/dashboard"
    /\ server = <<>>
    /\ storage = {"buildingInspectionUser"}
    /\ currentUser

NextAnalyze ==
    \/ RestoreUser
    \/ Redirect
    \/ DashboardEffect
    \/ ResultEffect
    \/ \E r \in Routes : Visit(r)
    \/ SessionEnds
    \/ \E h \in InFlight, ok \in BOOLEAN : FetchGotToken(h, ok)
    \/ \E h \in InFlight, reply \in {"ok"} \cup Failures : FetchAnswered(h, reply)
    \/ SelectImage
    \/ StartAnalyze
    \/ \E h \in InFlight, ok \in BOOLEAN : AnalyzeGotToken(h, ok)
    \/ \E h \in InFlight, reply \in AnalyzeReplies : AnalyzeAnswered(h, reply)
    \/ \E h \in InFlight, ok \in BOOLEAN : RefreshGotToken(h, ok)
    \/ \E h \in InFlight, reply \in {"ok"} \cup Failures : RefreshAnswered(h, reply)

SpecAnalyze == InitAnalyze /\ [][NextAnalyze]_vars

\* the next continuation of the handleAnalyze run of Dashboard instance i
Advance(i) ==
    \E h \in InFlight :
        /\ h.id = i
        /\ \/ \E ok \in BOOLEAN : AnalyzeGotToken(h, ok)
           \/ \E reply \in AnalyzeReplies : AnalyzeAnswered(h, reply)
           \/ \E ok \in BOOLEAN : RefreshGotToken(h, ok)
           \/ \E reply \in {"ok"} \cup Failures : RefreshAnswered(h, reply)

\* The runs of handleAnalyze alone: the session lasts, and the person leaves
\* the Dashboard through the address bar to "/", which leads back to a new
\* Dashboard
NextRuns ==
    \/ RestoreUser
    \/ Redirect
    \/ DashboardEffect
    \/ ResultEffect
    \/ Visit("/")
    \/ \E h \in InFlight, ok \in BOOLEAN : FetchGotToken(h, ok)
    \/ \E h \in InFlight, reply \in {"ok"} \cup Failures : FetchAnswered(h, reply)
    \/ SelectImage
    \/ StartAnalyze
    \/ \E i \in 1..MaxMounts : Advance(i)

\* every awaited promise of a run settles and its continuation is run
SpecAnalyzeFair ==
    /\ InitAnalyze
    /\ [][NextRuns]_vars
    /\ \A i \in 1..MaxMounts : WF_vars(Advance(i))

----------------------------------------------------------------------------
(* Vocabulary of the claims                                                *)

Resolved == result.status = "resolved"

\* the kinds getDamageType labels "Critical Damage": the structural kinds
CriticalKinds == {k \in Kinds : getDamageType([x \in {k} |-> 1]) = "Critical Damage"}

HasCriticalKind(m) == \E k \in DOMAIN m \cap CriticalKinds : m[k] >= 1

NonNegative(m) == \A k \in DOMAIN m : m[k] >= 0

\* the catalog's weights as the specification lists them; 0 for any other kind
weightOf(k) ==
    CASE k = "major_crack" -> 15
      [] k = "minor_crack" -> 8
      [] k = "spalling" -> 20
      [] k = "peeling" -> 10
      [] k = "algae" -> 5
      [] k = "stain" -> 5
      [] OTHER -> 0

RECURSIVE WeightedSum(_, _)
WeightedSum(m, keys) ==
    IF keys = {} THEN 0
    ELSE LET k == CHOOSE x \in keys : TRUE
         IN  weightOf(k) * m[k] + WeightedSum(m, keys \ {k})

Max(a, b) == IF a >= b THEN a ELSE b

Without(m, k) == [x \in DOMAIN m \ {k} |-> m[x]]

----------------------------------------------------------------------------
(* Claims about the assessment                                             *)

\* C1: a mapping that holds a structural kind (major_crack, spalling) with a
\* count of at least 1 is assessed Critical, whatever its total.
C1_StructuralKindIsCritical ==
    (Resolved /\ HasCriticalKind(detected)) => result.severity = "Critical"

\* C2: for every mapping of non-negative counts, over known and unknown
\* kinds, the health score is an integer of 0..100.
C2_ScoreWithinBounds ==
    (Resolved /\ NonNegative(detected)) =>
        /\ result.health_score.type = "number"
        /\ result.health_score.v \in 0..100

\* C3: the health score is max(0, 100 - sum of weightOf(kind) * count).
C3_ScoreIsWeightedPenalty ==
    (Resolved /\ NonNegative(detected)) =>
        result.health_score = Num(Max(0, 100 - WeightedSum(detected, DOMAIN detected)))

\* C4: a mapping whose total is 0 (empty, or every count 0) is assessed Good
\* with health score 100.
C4_NoDetectionsIsGood ==
    (Resolved /\ \A k \in DOMAIN detected : detected[k] = 0) =>
        /\ result.severity = "Good"
        /\ result.health_score = Num(100)

C4_Witness ==
    /\ Resolved
    /\ DOMAIN detected # {}
    /\ \A k \in DOMAIN detected : detected[k] = 0
    /\ result.severity = "Good"

\* C5: a mapping with total > 0 and no structural kind is Moderate when its
\* total is at most 2 and Critical when its total exceeds 2.
C5_CountThreshold ==
    (Resolved /\ Count(detected) > 0 /\ ~HasCriticalKind(detected)) =>
        result.severity = (IF Count(detected) <= 2 THEN "Moderate" ELSE "Critical")

C5_Witness ==
    /\ Resolved
    /\ detected = [k \in {"minor_crack", "stain"} |-> 1]
    /\ result.severity = "Moderate"

\* C6: the assessment fails with a ValidationError, and yields no assessment,
\* exactly when the mapping holds a negative count.
C6_NegativeCountIsRejected ==
    (result.status # "pending") =>
        ((\E k \in DOMAIN detected : detected[k] < 0) <=> result.status = "ValidationError")

\* C7: a kind outside the catalog weighs 0: a mapping with such a kind scores
\* what it scores without it, and its assessment is a number and a severity.
C7_UnknownKindWeighsNothing ==
    (Resolved /\ NonNegative(detected)) =>
        \A u \in DOMAIN detected \ DOMAIN penalties :
            /\ result.health_score = HealthScore(Without(detected, u))
            /\ result.health_score.type = "number"
            /\ result.severity \in Severities

\* What C2, C3 and C7 come to on the mappings that hold no key naming an
\* inherited property: there the three statements hold of the code.
NoInheritedKey(m) == DOMAIN m \cap ObjectPrototypeNames = {}

ScoreClaimsOnOwnKeys ==
    NoInheritedKey(detected) =>
        /\ C2_ScoreWithinBounds
        /\ C3_ScoreIsWeightedPenalty
        /\ C7_UnknownKindWeighsNothing

ScoreClaimsOnOwnKeys_Witness ==
    /\ Resolved
    /\ detected = [k \in {"spalling", "major_crack", "rust"} |-> 3]
    /\ result.health_score = Num(0)

----------------------------------------------------------------------------
(* Claims about the statistics                                             *)

\* computeStats has run on a non-empty list
StatsShown == ~stats.isNull

\* the re-orderings of a history
Reorderings(l) ==
    {[i \in 1..Len(l) |-> l[p[i]]] : p \in Permutations(1..Len(l))}

RECURSIVE TotalOfScores(_, _)
TotalOfScores(l, i) ==
    IF i = 0 THEN 0 ELSE l[i].health_score + TotalOfScores(l, i - 1)

\* C8: for a non-empty history the Good, Moderate and Critical counts sum to
\* totalCount, which is the length of the history.
C8_HistogramSumsToTotal ==
    StatsShown =>
        /\ stats.totalInspections = Len(list)
        /\ stats.severityCount["Good"] + stats.severityCount["Moderate"]
             + stats.severityCount["Critical"] = stats.totalInspections

C8_Witness ==
    /\ StatsShown
    /\ Len(list) = 3
    /\ stats.severityCount["Good"] = 1
    /\ stats.severityCount["Moderate"] = 1
    /\ stats.severityCount["Critical"] = 1

\* C9: for a non-empty history averageScore is the mean of the health scores
\* rounded to the nearest integer, a half rounding up: it is the integer a
\* with a - 1/2 <= sum / n < a + 1/2.
C9_AverageRoundsHalfUp ==
    StatsShown =>
        LET n == Len(list)
            sum == TotalOfScores(list, n)
            a == stats.averageScore
        IN  /\ 2 * a * n - n <= 2 * sum
            /\ 2 * sum < 2 * a * n + n

\* a mean that ends in one half: 85 and 90 average 87.5, shown as 88
C9_Witness ==
    /\ StatsShown
    /\ Len(list) = 2
    /\ list[1].health_score = 85
    /\ list[2].health_score = 90
    /\ stats.averageScore = 88

\* C10: the statistics computed for a history are those of each of its
\* re-orderings: total, average and histogram alike.
C10_OrderIndependent ==
    \/ list # <<>> /\ stats.isNull
    \/ \A q \in Reorderings(list) : computeStats(q) = stats

C10_Witness ==
    /\ StatsShown
    /\ Len(list) = 3
    /\ list[1].health_score = 90 /\ list[1].severity = "Good"
    /\ list[2].health_score = 70 /\ list[2].severity = "Moderate"
    /\ list[3].health_score = 50 /\ list[3].severity = "Critical"
    /\ stats.averageScore = 70
    /\ stats.totalInspections = 3

----------------------------------------------------------------------------
(* Claims about the removal                                                *)

\* the history with its i-th record taken out, the others in their order
DropAt(l, i) == [j \in 1..(Len(l) - 1) |-> IF j < i THEN l[j] ELSE l[j + 1]]

HasId(l, id) == \E i \in 1..Len(l) : IdOf(l[i]) = id

\* C12: a removal by identifier takes out exactly one record, the one with
\* that identifier, and keeps the others in their order; when no record has
\* the identifier the history comes back as it was.
C12_RemovesExactlyOne ==
    \A k \in 1..Len(ops) :
        LET before == arrays[ops[k].src]
            after == arrays[ops[k].dst]
        IN  IF HasId(before, ops[k].id)
            THEN /\ Len(after) = Len(before) - 1
                 /\ \E i \in 1..Len(before) :
                        IdOf(before[i]) = ops[k].id /\ after = DropAt(before, i)
            ELSE after = before

C12_Witness ==
    /\ Len(ops) = 1
    /\ Len(arrays[1]) = 3
    /\ IdOf(arrays[1][2]) = ops[1].id
    /\ arrays[2] = <<arrays[1][1], arrays[1][3]>>
    /\ arrays[1][2].id = 0

\* C13: removing the same identifier a second time gives what the first
\* removal gave.
C13_RemoveIdempotent ==
    \A k \in 2..Len(ops) :
        (ops[k].id = ops[k - 1].id /\ ops[k].src = ops[k - 1].dst) =>
            arrays[ops[k].dst] = arrays[ops[k - 1].dst]

C13_Witness ==
    /\ Len(ops) = 2
    /\ ops[1].id = ops[2].id
    /\ ops[2].src = ops[1].dst
    /\ HasId(arrays[ops[1].src], ops[1].id)
    /\ Len(arrays[ops[2].dst]) = 2

\* C16: no operation on a history changes an array that exists: every array
\* keeps its records, and a removal hands back an array that is not the one
\* it was given.
C16_NoMutationInPlace ==
    [][/\ \A r \in 1..Len(arrays) : Len(arrays') >= r /\ arrays'[r] = arrays[r]
       /\ ops' # ops => ops'[Len(ops')].dst # ops'[Len(ops')].src]_vars

C16_Witness ==
    /\ Len(ops) = 1
    /\ Len(arrays[ops[1].src]) = 3
    /\ Len(arrays[ops[1].dst]) = 2
    /\ ~stats.isNull /\ stats.totalInspections = 2

----------------------------------------------------------------------------
(* Claims about the Dashboard                                              *)

Min(a, b) == IF a < b THEN a ELSE b

\* inspections.slice(0, 5)
RecentList(l) == SubSeq(l, 1, Min(5, Len(l)))

\* What the sidebar of the Dashboard shows: the statistics card only when
\* stats is not null, and the recent list or the "No inspections yet" text
DashboardView ==
    [statsCard |-> IF stats.isNull THEN Null ELSE stats,
     history |-> IF Len(inspections) > 0 THEN "recent-list" ELSE "no-history",
     items |-> RecentList(inspections)]

\* the sidebar of a Dashboard that has loaded an empty history
EmptyView == [statsCard |-> Null, history |-> "no-history", items |-> <<>>]

FetchCameBack(got) ==
    /\ Mounted
    /\ last.op = "fetch"
    /\ last.outcome = "ok"
    /\ last.got = got

\* C11: when the history that comes back is empty or missing, the statistics
\* are the null sentinel and the Dashboard shows its empty state: no
\* statistics card, and the "No inspections yet" text in place of the list.
C11_EmptyHistoryIsNoStatistics ==
    (FetchCameBack("empty") \/ FetchCameBack("missing")) =>
        /\ stats = Null
        /\ inspections = <<>>
        /\ DashboardView = EmptyView

C11_Witness ==
    /\ FetchCameBack("missing")
    /\ stats = Null
    /\ DashboardView = EmptyView

\* C14: the statistics on the screen are always those of the history on the
\* screen: null exactly when it is empty, and otherwise its total, average
\* and severity counts.
C14_StatsAreOfDisplayedHistory ==
    /\ stats = computeStats(inspections)
    /\ stats.isNull <=> Len(inspections) = 0
    /\ ~stats.isNull =>
           /\ stats.totalInspections = Len(inspections)
           /\ stats.averageScore = MathRound(SumScores(inspections), Len(inspections))
           /\ \A s \in Severities :
                  stats.severityCount[s] = SeverityLength(inspections, s)

C14_Witness ==
    /\ Mounted
    /\ last.op = "delete"
    /\ last.outcome = "ok"
    /\ Len(inspections) = 1
    /\ stats.totalInspections = 1
    /\ stats.averageScore = inspections[1].health_score

\* C15: after a history fetch that failed (a non-OK answer other than 401, a
\* network error) the Dashboard does not look like one that has loaded an
\* empty history.
C15_FailureIsNotEmptyHistory ==
    (Mounted /\ last.op = "fetch" /\ last.outcome = "failed") =>
        DashboardView # EmptyView

\* C20: once a deletion has been applied to the displayed history, the
\* deleted inspection never comes back onto the screen.
C20_DeletedStaysDeleted ==
    [][\A id \in applied :
           ~HasId(inspections, id) => ~HasId(inspections', id)]_vars

----------------------------------------------------------------------------
(* Claims about the report                                                 *)

Degraded == location.image = "absent" \/ location.image = "unreadable"

\* C17: a report exported from a Result page whose image is absent or
\* unreadable is saved as a text-only document with a warning, and the
\* handler announces the download, never a failure.
C17_ExportSurvivesMissingImage ==
    (location.present /\ Degraded /\ download # NoDownload) =>
        /\ download.alert = "PDF report downloaded"
        /\ ~download.export.threw
        /\ download.export.saved
        /\ download.export.document.image = "none"
        /\ download.export.document.severity = result.severity
        /\ download.export.document.precautions = result.precautions
        /\ Len(download.export.warnings) > 0

C17_Witness ==
    /\ location.present
    /\ location.image = "absent"
    /\ download.alert = "PDF report downloaded"
    /\ download.export.document.image = "none"
    /\ download.export.warnings = <<"DegradedExport">>

\* C18: the Result page lists every detected kind once with its count, the
\* precautions of the assessment in their order, none dropped, doubled or
\* moved, and the severity and health score of the assessment.
C18_ReportShowsTheAssessment ==
    page.shown =>
        /\ DOMAIN page.damages = DOMAIN result.detected_damages
        /\ \A damage \in DOMAIN result.detected_damages :
               /\ page.damages[damage].count = result.detected_damages[damage]
               /\ page.damages[damage].name = DisplayName(damage)
               /\ \A other \in DOMAIN result.detected_damages :
                      other # damage =>
                          page.damages[other].name # page.damages[damage].name
        /\ DOMAIN page.precautions = DOMAIN result.precautions
        /\ \A i \in DOMAIN result.precautions :
               /\ page.precautions[i].text = result.precautions[i]
               /\ page.precautions[i].number = i
        /\ page.severity = result.severity
        /\ page.score = result.health_score

C18_Witness ==
    /\ page.shown
    /\ detected = [major_crack |-> 2]
    /\ page.damages["major_crack"] = [name |-> "MAJOR CRACK", count |-> 2]
    /\ page.severity = "Moderate"
    /\ page.score = Num(70)
    /\ Len(page.precautions) = 3
    /\ page.precautions[3].text = "Consider professional assessment"

\* the fixed generic sequence of recommended actions
GenericPrecautions ==
    <<"Regular inspection recommended", "Monitor damaged areas monthly",
      "Consider professional assessment">>

\* Math.floor(Math.random() * 3) + 1 is at most 3 detections
MaxPicks == 3

\* the orders in which detections can arrive that tally to the mapping m
PickOrders(m) ==
    IF (\A k \in DOMAIN m : m[k] >= 1) /\ Count(m) <= MaxPicks
    THEN {picks \in [1..Count(m) -> DOMAIN m] : Tally(picks) = m}
    ELSE {}

\* C19: every assessment has at least one precaution; the empty mapping gets
\* the fixed generic sequence; and whatever the order in which the kinds
\* were detected, the same counts get the same list.
C19_PrecautionsNeverEmpty ==
    Resolved =>
        /\ Len(result.precautions) > 0
        /\ detected = EmptyMap => result.precautions = GenericPrecautions
        /\ \A picks \in PickOrders(detected) :
               /\ Assessment(Tally(picks)).severity = result.severity
               /\ Assessment(Tally(picks)).precautions = result.precautions

C19_Witness ==
    /\ Resolved
    /\ Cardinality(PickOrders(detected)) = 3
    /\ Len(result.precautions) = 3

----------------------------------------------------------------------------
(* Claims about the score of a history entry                               *)

\* {inspection.health_score || 75}: the score of an entry of the history
\* list (0 is falsy)
ListScore(inspection) ==
    IF inspection.health_score = 0 THEN 75 ELSE inspection.health_score

\* the entry opened on the Result page: renderHealthScore(analysis.health_score)
ResultScore(inspection) == SafeScore(Num(inspection.health_score))

\* C26: for every entry of the history whose health score is an integer of
\* 0..100, the history list and the Result page show that score, and it is
\* the value the average is computed from.
C26_ShownScoreIsStoredScore ==
    ~stats.isNull =>
        \A i \in 1..Len(list) :
            /\ ListScore(list[i]) = list[i].health_score
            /\ ResultScore(list[i]) = Num(list[i].health_score)
            /\ ScoreOrZero(list[i].health_score) = list[i].health_score

----------------------------------------------------------------------------
(* Claims about the routes and the session                                 *)

\* C21: whenever the App holds a user and there is no Firebase user, the
\* redirects come to rest: a page is on the screen and no redirect and no
\* mount effect is due.
C21_NavigationSettles ==
    (user /\ ~currentUser) ~> Settled

\* C22: after a logout has completed, localStorage holds neither key and the
\* App's user is null, whatever handlers were in flight.
C22_LogoutClearsSession ==
    loggedOut => (storage = {} /\ ~user)

\* C23: the Dashboard and the Result page are on the screen only while the
\* user is not null (their routes redirect to /login otherwise); Landing,
\* Login and Signup only while it is null; a Result page without analysis
\* renders nothing and its redirect to /dashboard is due.
C23_RouteGuard ==
    /\ Rendered.kind \in {"Dashboard", "Result"} => user
    /\ Rendered.kind \in {"Landing", "Login", "Signup"} => ~user
    /\ (route \in {"/dashboard", "/result"} /\ ~user) => Rendered = Navigate("/login")
    /\ (Rendered.kind = "Result" /\ ~location.present) =>
           /\ Result(location) = NoPage
           /\ "Result" \in effects

C23_Witness ==
    /\ route = "/result"
    /\ user
    /\ ~location.present
    /\ Rendered.kind = "Result"
    /\ "Result" \in effects

----------------------------------------------------------------------------
(* Claims about handleAnalyze                                              *)

\* a run of handleAnalyze ends in this step
AnalyzeEnded == last' # last /\ last'.op = "analyze"

\* this step opens the Result page with the analysis of the upload
OpensAnalysis ==
    /\ route' = "/result"
    /\ location' = [present |-> TRUE, analysis |-> AnalyzeData, image |-> "dataUrl"]
    /\ route # "/result" \/ location # location'

\* the run that ends in this step had its OK answer and was in, or through,
\* its awaited fetchInspections
AfterRefresh ==
    \E h \in InFlight :
        /\ h.op = "analyze"
        /\ h.pc \in {"refresh", "refreshing"}
        /\ handlers' = DropHandler(h)

\* C24 as stated: handleAnalyze navigates to /result only after an OK JSON
\* answer and after its awaited fetchInspections; after a non-JSON body, a
\* non-OK status, a network error or a missing auth user it never navigates
\* to /result, and a 401 or a missing user navigates to /login.
C24_AnalyzeNavigation ==
    [][AnalyzeEnded =>
          /\ OpensAnalysis => (last'.got = "ok" /\ AfterRefresh)
          /\ last'.got # "ok" => ~OpensAnalysis
          /\ (StatusOf(last'.got) = "unauthorized" \/ last'.got = "no-user")
                => route' = "/login"]_vars

\* C24 amended: as C24, but only a 401 whose body is JSON navigates to
\* /login; a 401 whose body is not JSON ends in the catch and the route
\* stays.
C24_AnalyzeNavigationJson ==
    [][AnalyzeEnded =>
          /\ OpensAnalysis => (last'.got = "ok" /\ AfterRefresh)
          /\ last'.got # "ok" => ~OpensAnalysis
          /\ (last'.got = "unauthorized" \/ last'.got = "no-user")
                => route' = "/login"
          /\ last'.got = "unauthorized-nonjson" => route' = route]_vars

C24_Witness ==
    /\ last.op = "analyze"
    /\ last.got = "ok"
    /\ route = "/result"
    /\ Rendered.kind = "Result"
    /\ location = [present |-> TRUE, analysis |-> AnalyzeData, image |-> "dataUrl"]

\* the handleAnalyze runs in flight
Analyzing == {h \in InFlight : h.op = "analyze"}

\* a handleAnalyze run of Dashboard instance i is in flight
Running(i) == \E h \in Analyzing : h.id = i

\* every run of handleAnalyze comes to its end: no Dashboard's run stays in
\* flight for ever
AnalyzeEnds == \A i \in 1..MaxMounts : []<>~Running(i)

\* the end of a run clears loading, image and preview of its Dashboard
FinallyClears ==
    [][\A h \in Analyzing :
          (handlers' = DropHandler(h) /\ h.id = instance' /\ Rendered'.kind = "Dashboard")
             => (~loading' /\ upload' = NoUpload)]_vars

\* C25 as stated: every handleAnalyze run that sets loading true eventually
\* sets it false and clears image and preview, on every outcome; and since
\* the button is enabled only with an image and loading false, at most one
\* analyze request is in flight at any time.
C25_OneAnalyzeInFlight ==
    /\ AnalyzeEnds
    /\ FinallyClears
    /\ [](Cardinality(Analyzing) <= 1)

\* C25 amended: every handleAnalyze run comes to its end, and its finally
\* clears loading, image and preview of the Dashboard that started it while
\* that Dashboard is mounted; loading is true only while the run of the
\* mounted Dashboard is in flight, and each Dashboard has at most one run
\* in flight (runs of Dashboards left earlier may still be in flight).
C25_OneAnalyzePerDashboard ==
    /\ AnalyzeEnds
    /\ FinallyClears
    /\ [](/\ \A h \in Analyzing :
               /\ handlers[h] = 1
               /\ \A g \in Analyzing : g.id = h.id => g = h
          /\ (Rendered.kind = "Dashboard" /\ loading) => Running(instance)
          /\ loading => Rendered.kind = "Dashboard")

C25_Witness ==
    /\ last.op = "analyze"
    /\ last.outcome = "failed"
    /\ Rendered.kind = "Dashboard"
    /\ ~loading
    /\ upload = NoUpload
    /\ \E h \in Analyzing : h.id # instance

====
